---- MODULE Spec2Model ----
(***************************************************************************)
(* The inventory-management part of Frontend/index.js (lines 357-535):     *)
(* the client-side inventoryState, the three table renderers, the summary  *)
(* cards and every inventory event handler.  The DOM state the handlers    *)
(* touch (modals, toasts, form fields, rendered tables, the console) is    *)
(* part of the state.  Handlers run to completion on the one JavaScript    *)
(* thread, so each handler is one atomic action.                           *)
(***************************************************************************)
EXTENDS Integers, Sequences, FiniteSets, TLC

VARIABLES
    stock,                \* inventoryState.stock
    requests,             \* inventoryState.requests
    pc,                   \* "load" before the initial render, then "ready"
    console,              \* the MaxLog most recent lines the inventory listeners
                          \* (486-510) wrote with console.log, oldest first
    modalHidden,          \* modal id -> its classList contains 'hidden'
    toastHidden,          \* toast id -> its classList contains 'hidden'
    restockItemId,        \* #restock-item-id .value
    restockItemName,      \* #restock-item-name .value
    updateRequestId,      \* #update-request-id .value
    lowStockTable,        \* rows of #low-stock-table-body
    restockRequestsTable, \* rows of #restock-requests-table-body
    updateStockTable,     \* rows of #update-stock-table-body
    summary               \* the four summary cards

vars == <<stock, requests, pc, console, modalHidden, toastHidden,
          restockItemId, restockItemName, updateRequestId, lowStockTable,
          restockRequestsTable, updateStockTable, summary>>

----------------------------------------------------------------------------
\* Bounds of the model.

\* the console lines kept in view: the most recent MaxLog
MaxLog == 2
\* ranges of the stock record drawn by InitForecast
MaxStock == 35
MaxUsage == 3

----------------------------------------------------------------------------
\* inventoryState as the source constructs it.

InitialStock ==
    << [id |-> 1, name |-> "Paracetamol", type |-> "Drug", current_stock |-> 45, daily_usage |-> 10, unit |-> "Tablets"],
       [id |-> 2, name |-> "Gloves", type |-> "Supply", current_stock |-> 150, daily_usage |-> 20, unit |-> "Pairs"],
       [id |-> 3, name |-> "Syringes", type |-> "Supply", current_stock |-> 200, daily_usage |-> 15, unit |-> "Units"],
       [id |-> 4, name |-> "Amoxicillin", type |-> "Drug", current_stock |-> 120, daily_usage |-> 10, unit |-> "Capsules"] >>

InitialRequests ==
    << [request_id |-> 101, item_name |-> "Paracetamol", quantity |-> 500, phc_name |-> "PHC Ajah", request_date |-> "2025-10-11", status |-> "Pending", comments |-> "-"],
       [request_id |-> 102, item_name |-> "Syringe", quantity |-> 200, phc_name |-> "PHC Lekki", request_date |-> "2025-10-10", status |-> "Approved", comments |-> "Delivered"] >>

\* The status vocabulary: the three the request table styles, and Fulfilled.
Status == {"Pending", "Approved", "Declined", "Fulfilled"}

ModalIds == {"update-stock-modal", "request-restock-modal", "update-status-modal"}
ToastIds == {"toast-stock-updated", "toast-restock-sent"}

----------------------------------------------------------------------------
\* renderLowStockTable

RedClass == "text-red-700 bg-red-100 dark:text-red-100 dark:bg-red-700"
YellowClass == "text-yellow-700 bg-yellow-100 dark:text-yellow-100 dark:bg-yellow-700"
GreenClass == "text-green-700 bg-green-100 dark:text-green-100 dark:bg-green-700"

\* A JavaScript number that is either a finite integer or Infinity.
Finite(n) == [finite |-> TRUE, value |-> n]
Infinity == [finite |-> FALSE, value |-> 0]
isFinite(d) == d.finite
\* d <= k for a finite integer k: Infinity <= k is false
LessEq(d, k) == d.finite /\ d.value <= k

\* Faulty variant: rounds the quotient up instead of down.
daysRemaining_Ceil(item) ==
    IF item.daily_usage > 0
    THEN Finite((item.current_stock + item.daily_usage - 1) \div item.daily_usage)
    ELSE Infinity

daysRemaining(item) ==
    IF item.daily_usage > 0
    THEN Finite(item.current_stock \div item.daily_usage)
    ELSE Infinity

\* Faulty variant: an item without usage is shown as out of stock.
colorClass_InfinityRed(d) ==
    IF ~d.finite \/ d.value <= 5 THEN RedClass
    ELSE IF d.value <= 10 THEN YellowClass
    ELSE GreenClass

colorClass(d) ==
    IF LessEq(d, 5) THEN RedClass
    ELSE IF LessEq(d, 10) THEN YellowClass
    ELSE GreenClass

daysText(d) == IF isFinite(d) THEN ToString(d.value) \o " days" ELSE "N/A"

lowStockRow(item) ==
    [name |-> item.name, type |-> item.type, current_stock |-> item.current_stock,
     daily_usage |-> item.daily_usage, colorClass |-> colorClass(daysRemaining(item)),
     days |-> daysText(daysRemaining(item)), unit |-> item.unit,
     itemId |-> ToString(item.id), itemName |-> item.name]

renderLowStockTable(stk) == [i \in 1..Len(stk) |-> lowStockRow(stk[i])]

----------------------------------------------------------------------------
\* renderRestockRequestsTable

statusClass(status) ==
    CASE status = "Pending" -> YellowClass
      [] status = "Approved" -> GreenClass
      [] status = "Declined" -> RedClass
      [] OTHER -> ""

\* Faulty variant: the Approve / Decline button is rendered for every request.
hasUpdateStatusBtn_Always(req) == TRUE

\* The last cell: the Approve / Decline button, or a dash.
hasUpdateStatusBtn(req) == req.status = "Pending"

restockRequestRow(req) ==
    [request_id |-> req.request_id, item_name |-> req.item_name, quantity |-> req.quantity,
     phc_name |-> req.phc_name, request_date |-> req.request_date,
     statusClass |-> statusClass(req.status), status |-> req.status,
     comments |-> req.comments, button |-> hasUpdateStatusBtn(req),
     requestId |-> ToString(req.request_id)]

\* The request dates are ISO strings; their order is that of the day numbers.
DateNumber(date) ==
    CASE date = "2025-10-10" -> 20251010
      [] date = "2025-10-11" -> 20251011
      [] date = "2025-10-12" -> 20251012

\* Faulty variant: the rows are sorted by request date before they are listed.
renderRestockRequestsTable_Sorted(reqs) ==
    LET sorted == SortSeq(reqs, LAMBDA a, b :
                          DateNumber(a.request_date) < DateNumber(b.request_date))
    IN [i \in 1..Len(reqs) |-> restockRequestRow(sorted[i])]

\* inventoryState.requests.forEach: one row per request, in array order
renderRestockRequestsTable(reqs) == [i \in 1..Len(reqs) |-> restockRequestRow(reqs[i])]

----------------------------------------------------------------------------
\* renderUpdateStockTable: one number input per item, value "0", min "0"

renderUpdateStockTable(stk) ==
    [i \in 1..Len(stk) |-> [name |-> stk[i].name, itemId |-> ToString(stk[i].id), value |-> "0"]]

----------------------------------------------------------------------------
\* updateSummaryCards

SumStock(stk) ==
    LET F[i \in 0..Len(stk)] == IF i = 0 THEN 0 ELSE F[i - 1] + stk[i].current_stock
    IN F[Len(stk)]

\* (current_stock / daily_usage) <= 5 over the reals, for daily_usage > 0
isLowStock(item) == item.daily_usage > 0 /\ item.current_stock <= 5 * item.daily_usage

updateSummaryCards(stk, reqs) ==
    [total_stock |-> SumStock(stk),
     low_stock |-> Cardinality({i \in 1..Len(stk) : isLowStock(stk[i])}),
     pending_requests |-> Cardinality({i \in 1..Len(reqs) : reqs[i].status = "Pending"}),
     approved_requests |-> Cardinality({i \in 1..Len(reqs) : reqs[i].status = "Approved"})]

----------------------------------------------------------------------------
\* showToast, openModal, closeModal: the new classList state

openModal(hidden, id) == [hidden EXCEPT ![id] = FALSE]
closeModal(hidden, id) == [hidden EXCEPT ![id] = TRUE]

\* showToast un-hides the toast and schedules the callback that hides it
\* again (toastTimeout below).
showToast(id) == toastHidden' = [toastHidden EXCEPT ![id] = FALSE]

\* the setTimeout callback of showToast.  A callback is pending whenever the
\* toast is shown, since every showToast schedules one and every callback
\* hides; a callback that finds the toast hidden changes nothing.
toastTimeout ==
    /\ \E id \in ToastIds :
        /\ ~toastHidden[id]
        /\ toastHidden' = [toastHidden EXCEPT ![id] = TRUE]
    /\ UNCHANGED <<stock, requests, pc, console, modalHidden, restockItemId,
                   restockItemName, updateRequestId, lowStockTable,
                   restockRequestsTable, updateStockTable, summary>>

\* The lines the handlers write.
AutoRestockCheckLine == "POST /inventory/auto-restock-check"
RestockRequestLine == "POST /inventory/restock-requests"
UpdateStockLine == "POST /inventory/update-stock"
UpdateStatusLine(requestId) == "PUT /inventory/restock-requests/" \o requestId
CheckLowStockLine == "GET /inventory/low-stock?threshold_days=5"

log(line) ==
    console' = IF Len(console) < MaxLog THEN Append(console, line)
               ELSE Append(Tail(console), line)

----------------------------------------------------------------------------
\* What each handler does to inventoryState.

\* Faulty variant: the form handler inserts the request it announces.
requestRestockSubmitRequests_Push(reqs, itemName) ==
    Append(reqs, [request_id |-> 101 + Len(reqs), item_name |-> itemName, quantity |-> 1,
                  phc_name |-> "PHC Ajah", request_date |-> "2025-10-12",
                  status |-> "Pending", comments |-> "-"])

\* request-restock-form submit: no write to inventoryState.requests
requestRestockSubmitRequests(reqs, itemName) == reqs

\* Faulty variant: the sweep inserts a Pending request for the first item that
\* is not green, without looking for an open one.
autoRestockCheckRequests_Push(reqs, stk) ==
    LET low == {i \in 1..Len(stk) : colorClass(daysRemaining(stk[i])) # GreenClass}
        i == CHOOSE j \in low : \A k \in low : j <= k
    IN IF low = {} THEN reqs
       ELSE Append(reqs, [request_id |-> 101 + Len(reqs), item_name |-> stk[i].name,
                          quantity |-> 1, phc_name |-> "PHC Ajah",
                          request_date |-> "2025-10-12", status |-> "Pending",
                          comments |-> "-"])

\* auto-restock-check-btn click: no write to inventoryState.requests
autoRestockCheckRequests(reqs, stk) == reqs

\* check-low-stock-btn click: no write to inventoryState.requests
checkLowStockRequests(reqs, stk) == reqs

\* Faulty variant: the status form writes the new status without looking at
\* the request id or at the status the request has.
updateStatusSubmitRequests_ApproveAll(reqs, requestId) ==
    [j \in 1..Len(reqs) |-> [reqs[j] EXCEPT !.status = "Approved"]]

\* update-status-form submit: no write to inventoryState.requests
updateStatusSubmitRequests(reqs, requestId) == reqs

\* update-status-form submit: no write to inventoryState.stock
updateStatusSubmitStock(stk, reqs, requestId) == stk

\* Faulty variant: the form handler adds the typed amounts to the stock unchecked
\* (a typed value is "0" or the negative amount the user entered).
updateStockSubmitStock_Apply(stk, table) ==
    [i \in 1..Len(stk) |->
        IF i \in DOMAIN table /\ table[i].value # "0"
        THEN [stk[i] EXCEPT !.current_stock = @ - (@ + 1)]
        ELSE stk[i]]

\* update-stock-form submit: no write to inventoryState.stock
updateStockSubmitStock(stk, table) == stk

----------------------------------------------------------------------------
\* Event handlers.  Every handler waits for the initial render (the listeners
\* are registered and the tables rendered in one DOMContentLoaded callback).
\* Each listener is an event of its own: a form's submit event and the click
\* on its submit button are separate actions, since the click listeners of
\* the two modal buttons call preventDefault and so never lead to a submit.

\* The values a user can leave in the update-stock input of an item: the
\* rendered "0", or an amount below minus the stock on hand.
TypedValues(item) == {"0", ToString(-(item.current_stock + 1))}

\* The rows of the update-stock table whose input the model's user edits.
TypedRows == {1}

\* Initial Render: renderLowStockTable(); renderRestockRequestsTable();
\* updateSummaryCards();
initialRender ==
    /\ pc = "load"
    /\ pc' = "ready"
    /\ lowStockTable' = renderLowStockTable(stock)
    /\ restockRequestsTable' = renderRestockRequestsTable(requests)
    /\ summary' = updateSummaryCards(stock, requests)
    /\ UNCHANGED <<stock, requests, console, modalHidden, toastHidden,
                   restockItemId, restockItemName, updateRequestId, updateStockTable>>

openUpdateStockModalBtnClick ==
    /\ pc = "ready"
    /\ updateStockTable' = renderUpdateStockTable(stock)
    /\ modalHidden' = openModal(modalHidden, "update-stock-modal")
    /\ UNCHANGED <<stock, requests, pc, console, toastHidden,
                   restockItemId, restockItemName, updateRequestId, lowStockTable,
                   restockRequestsTable, summary>>

\* the user types into one input of the open update-stock modal
updateStockInput ==
    /\ pc = "ready"
    /\ ~modalHidden["update-stock-modal"]
    /\ \E i \in DOMAIN updateStockTable \cap TypedRows : \E v \in TypedValues(stock[i]) :
        /\ v # updateStockTable[i].value
        /\ updateStockTable' = [updateStockTable EXCEPT ![i].value = v]
    /\ UNCHANGED <<stock, requests, pc, console, modalHidden, toastHidden,
                   restockItemId, restockItemName, updateRequestId, lowStockTable,
                   restockRequestsTable, summary>>

cancelBtnClick(modal) ==
    /\ pc = "ready"
    /\ modalHidden' = closeModal(modalHidden, modal)
    /\ UNCHANGED <<stock, requests, pc, console, toastHidden,
                   restockItemId, restockItemName, updateRequestId, lowStockTable,
                   restockRequestsTable, updateStockTable, summary>>

cancelUpdateStockBtnClick == cancelBtnClick("update-stock-modal")
cancelRestockBtnClick == cancelBtnClick("request-restock-modal")
cancelUpdateStatusBtnClick == cancelBtnClick("update-status-modal")

\* document click on a rendered .open-request-restock-modal-btn
openRequestRestockModalBtnClick ==
    /\ pc = "ready"
    /\ \E i \in DOMAIN lowStockTable :
        /\ restockItemId' = lowStockTable[i].itemId
        /\ restockItemName' = lowStockTable[i].itemName
    /\ modalHidden' = openModal(modalHidden, "request-restock-modal")
    /\ UNCHANGED <<stock, requests, pc, console, toastHidden,
                   updateRequestId, lowStockTable, restockRequestsTable,
                   updateStockTable, summary>>

\* document click on a rendered .open-update-status-modal-btn
openUpdateStatusModalBtnClick ==
    /\ pc = "ready"
    /\ \E i \in DOMAIN restockRequestsTable :
        /\ restockRequestsTable[i].button
        /\ updateRequestId' = restockRequestsTable[i].requestId
    /\ modalHidden' = openModal(modalHidden, "update-status-modal")
    /\ UNCHANGED <<stock, requests, pc, console, toastHidden,
                   restockItemId, restockItemName, lowStockTable,
                   restockRequestsTable, updateStockTable, summary>>

updateStockFormSubmit ==
    /\ pc = "ready"
    /\ log(UpdateStockLine)
    /\ modalHidden' = closeModal(modalHidden, "update-stock-modal")
    /\ showToast("toast-stock-updated")
    /\ stock' = updateStockSubmitStock(stock, updateStockTable)
    /\ UNCHANGED <<requests, pc, restockItemId, restockItemName, updateRequestId,
                   lowStockTable, restockRequestsTable, updateStockTable, summary>>

requestRestockFormSubmit ==
    /\ pc = "ready"
    /\ log(RestockRequestLine)
    /\ modalHidden' = closeModal(modalHidden, "request-restock-modal")
    /\ showToast("toast-restock-sent")
    /\ requests' = requestRestockSubmitRequests(requests, restockItemName)
    /\ UNCHANGED <<stock, pc, restockItemId, restockItemName, updateRequestId,
                   lowStockTable, restockRequestsTable, updateStockTable, summary>>

updateStatusFormSubmit ==
    /\ pc = "ready"
    /\ log(UpdateStatusLine(updateRequestId))
    /\ modalHidden' = closeModal(modalHidden, "update-status-modal")
    /\ showToast("toast-stock-updated")
    /\ requests' = updateStatusSubmitRequests(requests, updateRequestId)
    /\ stock' = updateStatusSubmitStock(stock, requests, updateRequestId)
    /\ UNCHANGED <<pc, restockItemId, restockItemName, updateRequestId,
                   lowStockTable, restockRequestsTable, updateStockTable, summary>>

autoRestockCheckBtnClick ==
    /\ pc = "ready"
    /\ log(AutoRestockCheckLine)
    /\ requests' = autoRestockCheckRequests(requests, stock)
    /\ UNCHANGED <<stock, pc, modalHidden, toastHidden, restockItemId,
                   restockItemName, updateRequestId, lowStockTable,
                   restockRequestsTable, updateStockTable, summary>>

checkLowStockBtnClick ==
    /\ pc = "ready"
    /\ log(CheckLowStockLine)
    /\ requests' = checkLowStockRequests(requests, stock)
    /\ UNCHANGED <<stock, pc, modalHidden, toastHidden,
                   restockItemId, restockItemName, updateRequestId, lowStockTable,
                   restockRequestsTable, updateStockTable, summary>>

\* click on the submit button of #request-restock-modal
requestRestockModalSubmitBtnClick ==
    /\ pc = "ready"
    /\ modalHidden' = closeModal(modalHidden, "request-restock-modal")
    /\ showToast("toast-restock-sent")
    /\ UNCHANGED <<stock, requests, pc, console, restockItemId, restockItemName,
                   updateRequestId, lowStockTable, restockRequestsTable,
                   updateStockTable, summary>>

\* click on the submit button of #update-stock-modal
updateStockModalSubmitBtnClick ==
    /\ pc = "ready"
    /\ modalHidden' = closeModal(modalHidden, "update-stock-modal")
    /\ showToast("toast-stock-updated")
    /\ UNCHANGED <<stock, requests, pc, console, restockItemId, restockItemName,
                   updateRequestId, lowStockTable, restockRequestsTable,
                   updateStockTable, summary>>

----------------------------------------------------------------------------
\* Specifications.

InitWith(stk, reqs) ==
    /\ stock = stk
    /\ requests = reqs
    /\ pc = "load"
    /\ console = << >>
    /\ modalHidden = [m \in ModalIds |-> TRUE]
    /\ toastHidden = [t \in ToastIds |-> TRUE]
    /\ restockItemId = ""
    /\ restockItemName = ""
    /\ updateRequestId = ""
    /\ lowStockTable = << >>
    /\ restockRequestsTable = << >>
    /\ updateStockTable = << >>
    /\ summary = [total_stock |-> 0, low_stock |-> 0, pending_requests |-> 0,
                  approved_requests |-> 0]

\* The page as the source constructs it.
Init == InitWith(InitialStock, InitialRequests)

Next ==
    \/ initialRender
    \/ openUpdateStockModalBtnClick
    \/ updateStockInput
    \/ cancelUpdateStockBtnClick
    \/ cancelRestockBtnClick
    \/ cancelUpdateStatusBtnClick
    \/ openRequestRestockModalBtnClick
    \/ openUpdateStatusModalBtnClick
    \/ updateStockFormSubmit
    \/ requestRestockFormSubmit
    \/ updateStatusFormSubmit
    \/ autoRestockCheckBtnClick
    \/ checkLowStockBtnClick
    \/ requestRestockModalSubmitBtnClick
    \/ updateStockModalSubmitBtnClick
    \/ toastTimeout

Spec == Init /\ [][Next]_vars

\* The renderers over the constructed stock and over every stock record of
\* one item: the second item's current_stock and daily_usage as constructed,
\* or drawn from 0..MaxStock and -1..MaxUsage.
InitForecast ==
    \/ Init
    \/ \E s \in 0..MaxStock : \E u \in -1..MaxUsage :
        InitWith([InitialStock EXCEPT ![2].current_stock = s, ![2].daily_usage = u],
                 InitialRequests)

NextForecast ==
    \/ initialRender
    \/ autoRestockCheckBtnClick
    \/ checkLowStockBtnClick

SpecForecast == InitForecast /\ [][NextForecast]_vars

\* The request table and the status form over every status of the two
\* requests.
InitLedger ==
    \E s1 \in Status : \E s2 \in Status :
        InitWith(InitialStock,
                 [InitialRequests EXCEPT ![1].status = s1, ![2].status = s2])

NextLedger ==
    \/ initialRender
    \/ openUpdateStatusModalBtnClick
    \/ cancelUpdateStatusBtnClick
    \/ updateStatusFormSubmit
    \/ toastTimeout

SpecLedger == InitLedger /\ [][NextLedger]_vars

\* The request table over every dating and status of the two requests.
RequestDates == {"2025-10-10", "2025-10-11", "2025-10-12"}

InitListing ==
    \E d1 \in RequestDates : \E d2 \in RequestDates :
        \E s1 \in Status : \E s2 \in Status :
            InitWith(InitialStock,
                     [InitialRequests EXCEPT ![1].request_date = d1, ![1].status = s1,
                                             ![2].request_date = d2, ![2].status = s2])

NextListing ==
    \/ initialRender
    \/ openUpdateStatusModalBtnClick
    \/ cancelUpdateStatusBtnClick

SpecListing == InitListing /\ [][NextListing]_vars

----------------------------------------------------------------------------
\* Vocabulary of the properties.

Logged(line) == \E k \in DOMAIN console : console[k] = line

\* An open request: Pending, or Approved and not yet Fulfilled.
IsOpen(req) == req.status \in {"Pending", "Approved"}
OpenRequestsFor(name) ==
    {j \in DOMAIN requests : requests[j].item_name = name /\ IsOpen(requests[j])}
ItemNames ==
    {stock[i].name : i \in DOMAIN stock} \cup {requests[j].item_name : j \in DOMAIN requests}

\* The urgency tiers are the three badge classes of the low-stock table.
Critical == RedClass
High == YellowClass
Normal == GreenClass

----------------------------------------------------------------------------
\* C1: for every item with daily_usage > 0 the rendered forecast shows
\* floor(current_stock / daily_usage) days (the d with d * usage <= stock <
\* (d + 1) * usage), Critical when d <= 5, High when 5 < d <= 10, Normal when
\* d > 10; 45 / 10 shows 4 days Critical and 120 / 10 shows 12 days Normal.
C1_ForecastTiers ==
    pc = "ready" =>
        /\ \A i \in DOMAIN stock :
            stock[i].daily_usage > 0 =>
                \E d \in 0..stock[i].current_stock :
                    /\ d * stock[i].daily_usage <= stock[i].current_stock
                    /\ stock[i].current_stock < (d + 1) * stock[i].daily_usage
                    /\ lowStockTable[i].days = ToString(d) \o " days"
                    /\ (d <= 5 => lowStockTable[i].colorClass = Critical)
                    /\ (5 < d /\ d <= 10 => lowStockTable[i].colorClass = High)
                    /\ (d > 10 => lowStockTable[i].colorClass = Normal)
        /\ lowStockTable[1].days = "4 days" /\ lowStockTable[1].colorClass = Critical
        /\ lowStockTable[4].days = "12 days" /\ lowStockTable[4].colorClass = Normal

\* An item of 32 units used 3 a day is rendered: 10 days, the last High day.
C1_Witness ==
    /\ pc = "ready"
    /\ stock[2].current_stock = 32 /\ stock[2].daily_usage = 3
    /\ lowStockTable[2].days = "10 days"
    /\ lowStockTable[2].colorClass = High

\* C2: in every reachable state each item has at most one open request
\* (Pending or Approved) in inventoryState.requests.
C2_AtMostOneOpenRequestPerItem ==
    \A name \in ItemNames : Cardinality(OpenRequestsFor(name)) <= 1

\* A manual restock request for Paracetamol, which has a Pending request,
\* and a sweep have both run; Paracetamol still has one open request.
C2_Witness ==
    /\ Logged(RestockRequestLine) /\ Logged(AutoRestockCheckLine)
    /\ restockItemName = "Paracetamol"
    /\ Cardinality(OpenRequestsFor("Paracetamol")) = 1

\* The request the status form names, if any.
NamedRequests == {j \in DOMAIN requests : ToString(requests[j].request_id) = updateRequestId}

\* A step of the program that fulfils request j: the request becomes
\* Fulfilled and, in the same step, the stock of the item it names grows by
\* exactly its quantity and no other stock changes.
FulfillStep(j) ==
    /\ Next
    /\ requests'[j].status = "Fulfilled"
    /\ \A i \in DOMAIN stock :
        stock'[i].current_stock =
            stock[i].current_stock +
                (IF stock[i].name = requests[j].item_name THEN requests[j].quantity ELSE 0)

\* C3: fulfil is a status operation on an Approved request: the request's
\* row offers the status form, and submitting the form for it is one atomic
\* step that adds exactly its quantity to the target item's current_stock and
\* marks it Fulfilled.
C3_FulfillApproved ==
    pc = "ready" =>
        \A j \in DOMAIN requests :
            requests[j].status = "Approved" =>
                /\ restockRequestsTable[j].button
                /\ j \in NamedRequests => ENABLED FulfillStep(j)

\* The status paths of a request.
StatusPaths == {<<"Pending", "Approved">>, <<"Approved", "Fulfilled">>, <<"Pending", "Declined">>}

\* C4: a request that is Declined or Fulfilled never changes status again,
\* every status change follows Pending -> Approved -> Fulfilled or
\* Pending -> Declined, and the status form never names a request that is
\* Approved, Declined or Fulfilled (only a Pending row has the button).
C4_TerminalStatuses ==
    /\ [](\A j \in NamedRequests : requests[j].status = "Pending")
    /\ [][/\ DOMAIN requests \subseteq DOMAIN requests'
          /\ \A j \in DOMAIN requests :
                /\ requests[j].status \in {"Declined", "Fulfilled"}
                        => requests'[j].status = requests[j].status
                /\ requests'[j].status # requests[j].status
                        => <<requests[j].status, requests'[j].status>> \in StatusPaths]_vars

\* Request 101 is Declined and rendered without a button, and the status
\* form has been submitted for request 102: 101 is still Declined.
C4_Witness ==
    /\ pc = "ready"
    /\ requests[1].status = "Declined"
    /\ ~restockRequestsTable[1].button
    /\ Logged(UpdateStatusLine("102"))

\* C6: a sweep that directly follows a sweep (the last console line is the
\* sweep's, so no stock, usage or status change came between) leaves
\* inventoryState.requests as it was: it creates no request, so no item
\* gains a second open request.
C6_SecondSweepCreatesNothing ==
    [][(/\ autoRestockCheckBtnClick
        /\ console # << >>
        /\ console[Len(console)] = AutoRestockCheckLine)
       => requests' = requests]_vars

\* Two sweeps have run in succession.
C6_Witness ==
    /\ console = <<AutoRestockCheckLine, AutoRestockCheckLine>>
    /\ requests = InitialRequests

\* The requests inserted since the page was constructed, for an item.
InsertedFor(name) ==
    {j \in DOMAIN requests : j > Len(InitialRequests) /\ requests[j].item_name = name}

\* C7: the handlers run to completion one at a time, so an interleaving of
\* sweeps and manual restock requests is a sequence of whole handlers; in
\* every state such a sequence reaches, no item has had two requests
\* inserted.
C7_NoDoubleInsert ==
    \A name \in ItemNames : Cardinality(InsertedFor(name)) <= 1

\* A sweep and then a manual restock request for Gloves (High, no open
\* request: the item both would insert for) have run, and Gloves has no
\* request.
C7_Witness ==
    /\ console = <<AutoRestockCheckLine, RestockRequestLine>>
    /\ restockItemName = "Gloves"
    /\ \A j \in DOMAIN requests : requests[j].item_name # "Gloves"

\* C9: current_stock >= 0 for every item in every reachable state, and an
\* update-stock submission (the form's submit event or the click on its
\* submit button) that carries an amount which would drive an item's stock
\* below zero is rejected: it leaves every stock unchanged and does not
\* report the stock as updated, that is, it does not show the
\* toast-stock-updated toast.
C9_NegativeUpdateRejected ==
    /\ [](\A i \in DOMAIN stock : stock[i].current_stock >= 0)
    /\ [][((updateStockFormSubmit \/ updateStockModalSubmitBtnClick)
            /\ \E i \in DOMAIN updateStockTable : updateStockTable[i].value # "0")
          => /\ stock' = stock
             /\ toastHidden'["toast-stock-updated"] = toastHidden["toast-stock-updated"]]_vars

\* C10: once a sweep has run, every item whose tier is Critical or High has
\* an open request (the one it had, or the Pending one the sweep created),
\* and no request was inserted for an item whose tier is Normal.
C10_SweepCreatesRequests ==
    Logged(AutoRestockCheckLine) =>
        \A i \in DOMAIN stock :
            /\ lowStockTable[i].colorClass \in {Critical, High}
                    => OpenRequestsFor(stock[i].name) # {}
            /\ lowStockTable[i].colorClass = Normal
                    => InsertedFor(stock[i].name) = {}

\* C8 as stated: an item with daily_usage = 0 shows "N/A" and its tier is
\* none of Normal, High and Critical.
C8_UnknownTier ==
    pc = "ready" =>
        \A i \in DOMAIN stock :
            stock[i].daily_usage <= 0 =>
                /\ lowStockTable[i].days = "N/A"
                /\ lowStockTable[i].colorClass \notin {Normal, High, Critical}

\* C8 amended: an item with daily_usage <= 0 shows "N/A", is never High or
\* Critical but carries the class of a Normal item, and no sweep inserts a
\* request for it.
C8_NoUsageShownAsNormal ==
    pc = "ready" =>
        \A i \in DOMAIN stock :
            stock[i].daily_usage <= 0 =>
                /\ lowStockTable[i].days = "N/A"
                /\ lowStockTable[i].colorClass \notin {High, Critical}
                /\ lowStockTable[i].colorClass = Normal
                /\ InsertedFor(stock[i].name) = {}

\* An item with no stock and no usage has been rendered and a sweep has run.
C8_Witness ==
    /\ pc = "ready"
    /\ stock[2].daily_usage = 0 /\ stock[2].current_stock = 0
    /\ lowStockTable[2].days = "N/A"
    /\ Logged(AutoRestockCheckLine)

----------------------------------------------------------------------------
\* C11: a manual restock request for an item that already has a Pending or
\* Approved request is rejected: the step that submits it (the submit event
\* of the request-restock form, or the click on the modal's submit button)
\* adds nothing to the requests and does not report the request as sent, that
\* is, it does not show the toast-restock-sent toast.
C11_DuplicateRequestRejected ==
    [][((requestRestockFormSubmit \/ requestRestockModalSubmitBtnClick)
            /\ OpenRequestsFor(restockItemName) # {})
        => /\ requests' = requests
           /\ toastHidden'["toast-restock-sent"] = toastHidden["toast-restock-sent"]]_vars

----------------------------------------------------------------------------
\* The items a step creates requests for.
CreatedNames == {requests'[j].item_name : j \in DOMAIN requests' \ DOMAIN requests}

\* C12: the low-stock check (the query and the sweep's preview, both the
\* check-low-stock button) is read-only: the step changes no item of the
\* stock, so no current_stock and no daily_usage, and neither the set nor the
\* status of the requests.  It selects no item: but for the console line,
\* the page is as it was.  The committing sweep creates requests for exactly
\* these items, that is, for none.
C12_CheckLowStockReadOnly ==
    [][/\ checkLowStockBtnClick
            => /\ stock' = stock
               /\ requests' = requests
               /\ UNCHANGED <<pc, modalHidden, toastHidden, restockItemId,
                              restockItemName, updateRequestId, lowStockTable,
                              restockRequestsTable, updateStockTable, summary>>
       /\ autoRestockCheckBtnClick => CreatedNames = {}]_vars

\* the low-stock check ran, and so did the committing sweep, on a stock
\* that is not the constructed one
C12_Witness ==
    /\ pc = "ready"
    /\ console = <<AutoRestockCheckLine, CheckLowStockLine>>
    /\ stock[2].current_stock = 11 /\ stock[2].daily_usage = 2

----------------------------------------------------------------------------
\* C13 as stated: the listed restock requests are ordered by request date
\* ascending: of any two rows, the one further up is not dated later.
C13_ListedByDateAscending ==
    pc = "ready" =>
        \A i \in DOMAIN restockRequestsTable : \A j \in DOMAIN restockRequestsTable :
            i < j => DateNumber(restockRequestsTable[i].request_date)
                        <= DateNumber(restockRequestsTable[j].request_date)

\* C13: the restock requests are listed in the order of
\* inventoryState.requests, one row per request, whatever their dates: row i
\* shows request i.
C13_ListedInArrayOrder ==
    pc = "ready" =>
        /\ Len(restockRequestsTable) = Len(requests)
        /\ \A i \in DOMAIN requests :
            /\ restockRequestsTable[i].request_id = requests[i].request_id
            /\ restockRequestsTable[i].request_date = requests[i].request_date

\* the constructed requests are listed: 101 of 2025-10-11 above 102 of
\* 2025-10-10
C13_Witness ==
    /\ pc = "ready"
    /\ requests = InitialRequests
    /\ restockRequestsTable[1].request_id = 101
    /\ restockRequestsTable[1].request_date = "2025-10-11"
    /\ restockRequestsTable[2].request_id = 102
    /\ restockRequestsTable[2].request_date = "2025-10-10"

----------------------------------------------------------------------------
\* C14: whenever every item has daily_usage > 0, the low-stock count of the
\* summary cards equals the number of rows the low-stock table shows as
\* Critical (red, remaining days <= 5).
C14_SummaryMatchesTable ==
    (pc = "ready" /\ \A i \in DOMAIN stock : stock[i].daily_usage > 0) =>
        summary.low_stock =
            Cardinality({i \in DOMAIN lowStockTable : lowStockTable[i].colorClass = Critical})

----------------------------------------------------------------------------
\* C15: after any sequence of UI actions inventoryState is as constructed: no
\* item's current_stock or daily_usage and no request's status, quantity or
\* comments is modified, and no request is added or removed.
C15_InventoryStateUnchanged ==
    /\ Len(stock) = Len(InitialStock)
    /\ \A i \in DOMAIN stock :
        /\ stock[i].current_stock = InitialStock[i].current_stock
        /\ stock[i].daily_usage = InitialStock[i].daily_usage
    /\ Len(requests) = Len(InitialRequests)
    /\ \A j \in DOMAIN requests :
        /\ requests[j].request_id = InitialRequests[j].request_id
        /\ requests[j].status = InitialRequests[j].status
        /\ requests[j].quantity = InitialRequests[j].quantity
        /\ requests[j].comments = InitialRequests[j].comments

\* the status form was submitted for request 101 and the update-stock form
\* with an amount typed in, and a restock request has just been announced
C15_Witness ==
    /\ pc = "ready"
    /\ Logged(UpdateStatusLine("101"))
    /\ Logged(UpdateStockLine)
    /\ updateStockTable # <<>> /\ updateStockTable[1].value # "0"
    /\ restockItemName = "Gloves"
    /\ ~toastHidden["toast-restock-sent"]

====
